---- MODULE Spec2Model ----
(***************************************************************************)
(* A model of src/muler/nirspec.py: the KeckNIRSPECSpectrum container and  *)
(* the KeckNIRSPECSpectrumList collection.                                 *)
(*                                                                         *)
(* Strings are sequences of one-character strings, so that split, replace, *)
(* slicing and `in` are computed as Python computes them.  Floating-point  *)
(* samples are extended rationals <<n, d>> in lowest terms with d >= 0:    *)
(* <<n, d>> with d > 0 is n/d, <<1, 0>> is +inf, <<-1, 0>> is -inf and     *)
(* <<0, 0>> is NaN.  A Python None (and an absent optional argument) is    *)
(* the empty tuple, a present optional value x is <<x>>.                   *)
(***************************************************************************)
EXTENDS Integers, Sequences, FiniteSets, TLC

VARIABLES
    drawn,     \* the rows of the flux table of pGood; the files on disk are Disk[drawn]
    inputs,    \* the list of paths the caller holds
    handles,   \* number of file handles opened by fits.open and not yet released
    coll,      \* the caller's KeckNIRSPECSpectrumList: <<>> or <<sequence of containers>>
    ret,       \* value returned by the last call: <<>> or <<container>>
    retSelf,   \* TRUE when the last call returned its receiver object itself
    err,       \* exception raised by the last call, "" when it returned
    op,        \* the last call: [name, ...arguments, receiver before the call]
    ctorLog    \* paths handed to the file-based constructor during the last call

vars == <<drawn, inputs, handles, coll, ret, retSelf, err, op, ctorLog>>

(***************************************************************************)
(* Bounds                                                                  *)
(***************************************************************************)
MaxFiles == 2      \* longest list handed to read()
MaxHandles == 4    \* most handles left open at once
MaxRows == 2       \* most rows of a flux table drawn for the files on disk

None == <<>>
Some(x) == <<x>>

(***************************************************************************)
(* Python string operations                                                *)
(***************************************************************************)
\* s[i:] for a 0-based i >= 0
From(s, i) == SubSeq(s, i + 1, Len(s))

\* s.startswith(p)
StartsWith(s, p) == Len(p) <= Len(s) /\ SubSeq(s, 1, Len(p)) = p

\* p in s
In(p, s) == \E i \in 0..(Len(s) - Len(p)) : StartsWith(From(s, i), p)

\* s.find(p): 0-based index of the first occurrence, -1 when absent
Find(s, p) ==
    IF In(p, s)
    THEN CHOOSE i \in 0..(Len(s) - Len(p)) :
            /\ StartsWith(From(s, i), p)
            /\ \A j \in 0..(i - 1) : ~StartsWith(From(s, j), p)
    ELSE -1

\* s.rfind(p)
RFind(s, p) ==
    IF In(p, s)
    THEN CHOOSE i \in 0..(Len(s) - Len(p)) :
            /\ StartsWith(From(s, i), p)
            /\ \A j \in (i + 1)..(Len(s) - Len(p)) : ~StartsWith(From(s, j), p)
    ELSE -1

\* s.split(sep)[0]
SplitFirst(s, sep) == IF In(sep, s) THEN SubSeq(s, 1, Find(s, sep)) ELSE s

\* s.split(sep)[-1]
SplitLast(s, sep) == IF In(sep, s) THEN From(s, RFind(s, sep) + Len(sep)) ELSE s

\* s[-2:]
LastTwo(s) == IF Len(s) <= 2 THEN s ELSE SubSeq(s, Len(s) - 1, Len(s))

RECURSIVE Replace(_, _, _)
\* s.replace(old, new), every non-overlapping occurrence, left to right
Replace(s, old, new) ==
    IF Len(s) < Len(old) THEN s
    ELSE IF StartsWith(s, old) THEN new \o Replace(From(s, Len(old)), old, new)
    ELSE <<Head(s)>> \o Replace(Tail(s), old, new)

Digits == <<"0", "1", "2", "3", "4", "5", "6", "7", "8", "9">>
IsDigit(c) == \E k \in 1..10 : Digits[k] = c
DigitVal(c) == (CHOOSE k \in 1..10 : Digits[k] = c) - 1

RECURSIVE Strip(_)
\* s.strip() for the blank character
Strip(s) ==
    IF s = <<>> THEN s
    ELSE IF Head(s) = " " THEN Strip(Tail(s))
    ELSE IF s[Len(s)] = " " THEN Strip(SubSeq(s, 1, Len(s) - 1))
    ELSE s

RECURSIVE DigitsVal(_)
DigitsVal(s) ==
    IF s = <<>> THEN 0 ELSE 10 * DigitsVal(SubSeq(s, 1, Len(s) - 1)) + DigitVal(s[Len(s)])

AllDigits(s) == s # <<>> /\ \A k \in 1..Len(s) : IsDigit(s[k])

\* int(s) on a string of at most two characters: blanks are stripped, one
\* leading sign is allowed, the rest must be decimal digits.
\* [ok |-> FALSE] is ValueError.
int(s) ==
    LET t == Strip(s)
        signed == t # <<>> /\ Head(t) \in {"+", "-"}
        body == IF signed THEN Tail(t) ELSE t
    IN  IF AllDigits(body)
        THEN [ok |-> TRUE,
              val |-> IF signed /\ Head(t) = "-" THEN 0 - DigitsVal(body) ELSE DigitsVal(body)]
        ELSE [ok |-> FALSE, val |-> 0]

(***************************************************************************)
(* String literals of the source                                           *)
(***************************************************************************)
sNS == <<"N", "S", ".">>                                               \* "NS."
sFluxTblFits == <<"_", "f", "l", "u", "x", "_", "t", "b", "l", ".", "f", "i", "t", "s">>
sFlux == <<"_", "f", "l", "u", "x">>                                   \* "_flux"
sDotFluxTblFits == <<".", "f", "l", "u", "x", "_", "t", "b", "l", ".", "f", "i", "t", "s">>
sFitstblDir == <<"/", "f", "i", "t", "s", "t", "b", "l", "/">>           \* "/fitstbl/"
sFitsDir == <<"/", "f", "i", "t", "s", "/">>                            \* "/fits/"
sFluxTblDot == <<"_", "f", "l", "u", "x", "_", "t", "b", "l", ".">>     \* "_flux_tbl."
sFluxDot == <<"_", "f", "l", "u", "x", ".">>                            \* "_flux."
sSlash == <<"/">>

(***************************************************************************)
(* float64 samples as extended rationals                                   *)
(***************************************************************************)
AbsInt(n) == IF n < 0 THEN 0 - n ELSE n
SignInt(n) == IF n < 0 THEN 0 - 1 ELSE IF n > 0 THEN 1 ELSE 0

RECURSIVE GCD(_, _)
GCD(a, b) == IF b = 0 THEN a ELSE GCD(b, a % b)

\* the extended rational n/d in lowest terms
Norm(n, d) ==
    IF d = 0 THEN <<SignInt(n), 0>>
    ELSE LET g == GCD(AbsInt(n), AbsInt(d))
         IN  <<(SignInt(d) * n) \div g, AbsInt(d) \div g>>

Q(n) == <<n, 1>>
NaN == <<0, 0>>
isnan(x) == x = NaN
IsInf(x) == x[2] = 0 /\ x[1] # 0

Mul(x, y) == Norm(x[1] * y[1], x[2] * y[2])
Recip(x) == Norm(x[2], x[1])
\* x / y as IEEE division: x/0 is +-inf, 0/0 and inf/inf are NaN
Div(x, y) == Mul(x, Recip(y))
Neg(x) == <<0 - x[1], x[2]>>
Abs(x) == <<AbsInt(x[1]), x[2]>>
Add(x, y) ==
    IF isnan(x) \/ isnan(y) THEN NaN
    ELSE IF IsInf(x) /\ IsInf(y) THEN (IF x = y THEN x ELSE NaN)
    ELSE IF IsInf(x) THEN x
    ELSE IF IsInf(y) THEN y
    ELSE Norm(x[1] * y[2] + y[1] * x[2], x[2] * y[2])
Sub(x, y) == Add(x, Neg(y))
\* x < y, false when either is NaN
Less(x, y) ==
    /\ ~isnan(x)
    /\ ~isnan(y)
    /\ IF x[2] = 0 /\ y[2] = 0 THEN x[1] < y[1] ELSE x[1] * y[2] < y[1] * x[2]
\* x <= y, false when either is NaN
Leq(x, y) == ~isnan(x) /\ ~isnan(y) /\ (x = y \/ Less(x, y))

\* A standard deviation s is stored as s*|s|, a bijection on the extended
\* rationals that keeps sign, zero, NaN and infinities and makes the
\* quadrature sum of error propagation rational.
StdDev(s) == Mul(s, Abs(s))

RECURSIVE Insert(_, _)
Insert(sorted, x) ==
    IF sorted = <<>> THEN <<x>>
    ELSE IF Leq(x, Head(sorted)) THEN <<x>> \o sorted
    ELSE <<Head(sorted)>> \o Insert(Tail(sorted), x)

RECURSIVE Sort(_)
Sort(s) == IF s = <<>> THEN <<>> ELSE Insert(Sort(Tail(s)), Head(s))

RECURSIVE DropNaN(_)
DropNaN(s) ==
    IF s = <<>> THEN <<>>
    ELSE IF isnan(Head(s)) THEN DropNaN(Tail(s))
    ELSE <<Head(s)>> \o DropNaN(Tail(s))

\* np.nanmedian: the median of the samples that are not NaN, NaN when there
\* is none; the mean of the two middle samples when their number is even
nanmedian(flux) ==
    LET v == Sort(DropNaN(flux))
        n == Len(v)
    IN  IF n = 0 THEN NaN
        ELSE IF n % 2 = 1 THEN v[(n + 1) \div 2]
        ELSE Div(Add(v[n \div 2], v[n \div 2 + 1]), Q(2))

(***************************************************************************)
(* The files on disk                                                       *)
(***************************************************************************)
sDir == <<"d">> \o sDotFluxTblFits \o sFitstblDir        \* "d.flux_tbl.fits/fitstbl/"

pGood == sDir \o sNS \o <<"6", "3">> \o sFluxTblFits      \* .../NS.63_flux_tbl.fits
pNoHdr == sDir \o sNS \o <<"6", "4">> \o sFluxTblFits     \* .../NS.64_flux_tbl.fits
pPlain == sNS \o <<"6", "3">> \o sFluxTblFits             \* NS.63_flux_tbl.fits
pTwoFlux == sDir \o sNS \o <<"1", "2">> \o sFlux \o <<"_", "6", "3">> \o sFluxTblFits
pNonNum == sDir \o sNS \o <<"a", "b">> \o sFluxTblFits    \* .../NS.ab_flux_tbl.fits
pBadPrefix == sDir \o <<"X", "S", ".", "6", "3">> \o sFluxTblFits
pDot == sNS \o <<"6", "3">> \o sDotFluxTblFits            \* NS.63.flux_tbl.fits
pMissing == sDir \o sNS \o <<"6", "5">> \o sFluxTblFits   \* .../NS.65_flux_tbl.fits

Paths == {pGood, pNoHdr, pPlain, pTwoFlux, pNonNum, pBadPrefix, pDot, pMissing}
TableFiles == Paths \ {pMissing}

\* the (flux, noise) pairs a drawn table row takes
RowKinds ==
    { <<Q(2), Q(1)>>, <<NaN, Q(1)>>, <<Q(4), NaN>>, <<Q(0), Q(0)>>, <<Q(0 - 2), Q(0 - 1)>> }

RowSeqs == UNION { [1..n -> RowKinds] : n \in 0..MaxRows }

\* the rows every file other than the drawn ones holds
sampleRows == << <<Q(4), Q(2)>>, <<Q(6), Q(0)>>, <<Q(8), Q(1)>> >>

\* a flux table: columns wave (A), flux (cnts), noise (cnts), sky (cnts), col
Table(base, rows) ==
    [i \in 1..Len(rows) |->
        [wave |-> Q(base + i), flux |-> rows[i][1], noise |-> rows[i][2],
         sky |-> Q(1), col |-> i - 1]]

fullHeader == [k \in {"RA", "DEC", "MJD-OBS"} |-> Q(5)]
partHeader == [k \in {"RA"} |-> Q(7)]

(***************************************************************************)
(* KeckNIRSPECSpectrum                                                     *)
(***************************************************************************)
\* the keyword arguments of the base constructor, stored as given
EchelleSpectrum(spectral_axis, flux, mask, wcs, uncertainty, meta) ==
    [spectral_axis |-> spectral_axis, flux |-> flux, mask |-> mask, wcs |-> wcs,
     uncertainty |-> uncertainty, meta |-> meta]

emptyMeta == [k \in {} |-> None]

SetKey(meta, key, value) ==
    [k \in DOMAIN meta \cup {key} |-> IF k = key THEN value ELSE meta[k]]

exists(fsys, path) == path \in DOMAIN fsys.tables \/ path \in DOMAIN fsys.headers

file_basename(file) == SplitLast(file, sSlash)
file_stem(file) == SplitFirst(file_basename(file), sFlux)
grating_order(file) == int(LastTwo(file_stem(file)))
fits_with_full_header(file) ==
    Replace(Replace(file, sFitstblDir, sFitsDir), sFluxTblDot, sFluxDot)

\* the mask with a strict comparison of the noise
mask_strict(flux, unc) ==
    [i \in 1..Len(flux) |-> isnan(flux[i]) \/ isnan(unc[i]) \/ Less(unc[i], Q(0))]

\* mask = isnan(flux) | isnan(uncertainty.array) | (uncertainty.array <= 0)
mask(flux, unc) ==
    [i \in 1..Len(flux) |-> isnan(flux[i]) \/ isnan(unc[i]) \/ Leq(unc[i], Q(0))]

Raise(e) == [err |-> e, obj |-> None, opened |-> 0]

\* what the constructor and read() compute from the path alone
PathFacts(file) ==
    [prefix |-> StartsWith(file_basename(file), sNS),
     suffix |-> In(sFluxTblFits, file_basename(file)),
     order |-> grating_order(file),
     header |-> fits_with_full_header(file),
     dotted |-> In(sDotFluxTblFits, file)]

RECURSIVE PathTable(_)
PathTable(S) ==
    IF S = {} THEN <<>>
    ELSE LET p == CHOOSE q \in S : TRUE
         IN  (p :> PathFacts(p)) @@ PathTable(S \ {p})

\* PathFacts tabulated for the paths the calls are made with
OfPath == PathTable(Paths)

\* KeckNIRSPECSpectrum(file=file): the exception raised or the container
\* built, and the number of files opened on the way
KeckNIRSPECSpectrum(fsys, file) ==
    IF ~OfPath[file].prefix THEN Raise("AssertionError")
    ELSE IF ~OfPath[file].suffix THEN Raise("AssertionError")
    ELSE IF ~OfPath[file].order.ok THEN Raise("ValueError")
    ELSE IF ~exists(fsys, file) THEN Raise("AssertionError")
    ELSE
    LET data == fsys.tables[file]
        lamb == [i \in 1..Len(data) |-> data[i].wave]
        flux == [i \in 1..Len(data) |-> data[i].flux]
        unc == [i \in 1..Len(data) |-> data[i].noise]
        uncertainty == [i \in 1..Len(data) |-> StdDev(unc[i])]
        msk == mask(flux, unc)
        hasHeader == exists(fsys, OfPath[file].header)
        hdr == IF hasHeader THEN Some(fsys.headers[OfPath[file].header]) ELSE None
        wcs == IF hasHeader THEN Some("WCS") ELSE None
        meta_dict ==
            [k \in {"x_values", "pipeline", "m", "header"} |->
                CASE k = "x_values" -> [i \in 1..Len(data) |-> data[i].col]
                  [] k = "pipeline" -> "NSDRP"
                  [] k = "m" -> OfPath[file].order.val
                  [] k = "header" -> hdr]
        sky_spectrum ==
            EchelleSpectrum(lamb, [i \in 1..Len(data) |-> data[i].sky], Some(msk), None,
                            Some(uncertainty), meta_dict)
    IN  [err |-> "",
         obj |-> Some(EchelleSpectrum(lamb, flux, Some(msk), wcs, Some(uncertainty),
                                      SetKey(meta_dict, "sky", sky_spectrum))),
         opened |-> IF hasHeader THEN 2 ELSE 1]

\* Spectrum1D.divide(scalar, handle_meta="first_found"): flux and standard
\* deviation are divided, mask, axis, wcs and meta are those of the receiver
divide(c, scalar) ==
    [c EXCEPT
        !.flux = [i \in 1..Len(c.flux) |-> Div(c.flux[i], scalar)],
        !.uncertainty =
            IF c.uncertainty = None THEN None
            ELSE Some([i \in 1..Len(c.uncertainty[1]) |->
                        Div(Abs(c.uncertainty[1][i]), Mul(scalar, scalar))])]

\* Spectrum1D.subtract(other, handle_meta="first_found"): fluxes are
\* subtracted, standard deviations add in quadrature, masks are or-ed
subtract(c, other) ==
    [c EXCEPT
        !.flux = [i \in 1..Len(c.flux) |-> Sub(c.flux[i], other.flux[i])],
        !.uncertainty =
            IF c.uncertainty = None THEN other.uncertainty
            ELSE IF other.uncertainty = None THEN c.uncertainty
            ELSE Some([i \in 1..Len(c.flux) |->
                        Add(Abs(c.uncertainty[1][i]), Abs(other.uncertainty[1][i]))]),
        !.mask =
            IF c.mask = None THEN other.mask
            ELSE IF other.mask = None THEN c.mask
            ELSE Some([i \in 1..Len(c.flux) |-> c.mask[1][i] \/ other.mask[1][i]])]

Return(value, self) == [err |-> "", value |-> value, self |-> self]
Fail(e) == [err |-> e, value |-> None, self |-> FALSE]

\* meta[key]
Item(meta, key) ==
    IF key \in DOMAIN meta THEN Return(Some(meta[key]), FALSE) ELSE Fail("KeyError")

\* a header lookup that treats a None header as a missing key
HeaderItem_nokey(meta, key) ==
    IF "header" \notin DOMAIN meta \/ meta["header"] = None THEN Fail("KeyError")
    ELSE Item(meta["header"][1], key)

\* meta["header"][key]: None is not subscriptable
HeaderItem(meta, key) ==
    IF "header" \notin DOMAIN meta THEN Fail("KeyError")
    ELSE IF meta["header"] = None THEN Fail("TypeError")
    ELSE Item(meta["header"][1], key)

Properties == {"pipeline", "sky", "flat", "RA", "DEC", "astropy_time"}

\* the derived read-only properties
Property(c, name) ==
    CASE name = "pipeline" -> Item(c.meta, "pipeline")
      [] name = "sky" -> Item(c.meta, "sky")
      [] name = "flat" -> Item(c.meta, "flat")
      [] name = "RA" -> HeaderItem(c.meta, "RA")
      [] name = "DEC" -> HeaderItem(c.meta, "DEC")
      [] name = "astropy_time" -> HeaderItem(c.meta, "MJD-OBS")

\* a sky subtraction without the guard
sky_subtract_unguarded(c, force) ==
    IF Item(c.meta, "sky").err # "" THEN Fail("KeyError")
    ELSE Return(Some(subtract(c, c.meta["sky"])), FALSE)

sky_subtract(c, force) ==
    IF force
    THEN IF Item(c.meta, "sky").err # "" THEN Fail("KeyError")
         ELSE Return(Some(subtract(c, c.meta["sky"])), FALSE)
    ELSE Return(Some(c), TRUE)

(***************************************************************************)
(* KeckNIRSPECSpectrumList                                                 *)
(***************************************************************************)
RECURSIVE ReadLoop_skip(_, _, _, _, _, _)
\* a loop that skips a bad path instead of raising
ReadLoop_skip(fsys, files, i, list_out, log, opened) ==
    IF i > Len(files)
    THEN [err |-> "", value |-> Some(list_out), log |-> log, opened |-> opened]
    ELSE IF ~OfPath[files[i]].dotted
    THEN ReadLoop_skip(fsys, files, i + 1, list_out, log, opened)
    ELSE LET spec == KeckNIRSPECSpectrum(fsys, files[i])
         IN  IF spec.err # ""
             THEN ReadLoop_skip(fsys, files, i + 1, list_out, Append(log, files[i]),
                                opened + spec.opened)
             ELSE ReadLoop_skip(fsys, files, i + 1, Append(list_out, spec.obj[1]),
                                Append(log, files[i]), opened + spec.opened)

RECURSIVE ReadLoop(_, _, _, _, _, _)
\* the loop of read() from index i on: the exception raised or the list
\* built, the paths handed to the constructor and the files opened
ReadLoop(fsys, files, i, list_out, log, opened) ==
    IF i > Len(files)
    THEN [err |-> "", value |-> Some(list_out), log |-> log, opened |-> opened]
    ELSE IF ~OfPath[files[i]].dotted
    THEN [err |-> "AssertionError", value |-> None, log |-> log, opened |-> opened]
    ELSE LET spec == KeckNIRSPECSpectrum(fsys, files[i])
         IN  IF spec.err # ""
             THEN [err |-> spec.err, value |-> None, log |-> Append(log, files[i]),
                   opened |-> opened + spec.opened]
             ELSE ReadLoop(fsys, files, i + 1, Append(list_out, spec.obj[1]),
                           Append(log, files[i]), opened + spec.opened)

read(fsys, files) == ReadLoop(fsys, files, 1, <<>>, <<>>, 0)

RECURSIVE NormalizeLoop(_, _, _)
NormalizeLoop(self, i, median_flux) ==
    IF i > Len(self) THEN self
    ELSE NormalizeLoop([self EXCEPT ![i] = divide(self[i], median_flux)], i + 1, median_flux)

\* a normalize() that takes the median of the last element
normalize_last(self) ==
    IF Len(self) = 0 THEN Fail("IndexError")
    ELSE Return(Some(NormalizeLoop(self, 1, nanmedian(self[Len(self)].flux))), TRUE)

RECURSIVE NormalizeLoop_live(_, _)
NormalizeLoop_live(self, i) ==
    IF i > Len(self) THEN self
    ELSE NormalizeLoop_live(
            [self EXCEPT ![i] = divide(self[i], nanmedian(self[1].flux))], i + 1)

\* a normalize() that reads the median of element 0 anew in every iteration
normalize_live(self) ==
    IF Len(self) = 0 THEN Fail("IndexError")
    ELSE Return(Some(NormalizeLoop_live(self, 1)), TRUE)

normalize(self) ==
    IF Len(self) = 0 THEN Fail("IndexError")
    ELSE Return(Some(NormalizeLoop(self, 1, nanmedian(self[1].flux))), TRUE)

RECURSIVE hstack_reversed(_)
\* a stacking that lays the arrays end to end in reverse order
hstack_reversed(arrays) ==
    IF arrays = <<>> THEN <<>> ELSE hstack_reversed(Tail(arrays)) \o Head(arrays)

RECURSIVE hstack(_)
hstack(arrays) == IF arrays = <<>> THEN <<>> ELSE Head(arrays) \o hstack(Tail(arrays))

\* np.hstack of an empty list raises ValueError
stitch(self) ==
    IF Len(self) = 0 THEN Fail("ValueError")
    ELSE Return(Some(EchelleSpectrum(
                        hstack([i \in 1..Len(self) |-> self[i].spectral_axis]),
                        hstack([i \in 1..Len(self) |-> self[i].flux]),
                        None, None, None, emptyMeta)), FALSE)

(***************************************************************************)
(* State machine: a caller holding one collection and the last result      *)
(***************************************************************************)
WaveBase(p) ==
    CASE p = pGood -> 630
      [] p = pNoHdr -> 640
      [] p = pTwoFlux -> 120
      [] OTHER -> 100

\* the disk with the given rows in the flux table of pGood
FS(rows) ==
    [tables |-> [p \in TableFiles |->
                    Table(WaveBase(p), IF p = pGood THEN rows ELSE sampleRows)],
     headers |-> [p \in {fits_with_full_header(pGood), fits_with_full_header(pTwoFlux)} |->
                    IF p = fits_with_full_header(pGood) THEN fullHeader ELSE partHeader]]

\* the disks the calls are made on, tabulated by the rows drawn
Disk == [rows \in RowSeqs \cup {sampleRows} |-> FS(rows)]

FileLists == UNION { [1..n -> Paths] : n \in 0..MaxFiles }

\* the last call returned a container the caller goes on to use: a forced
\* sky subtraction is not repeated on its own result
RetIsContainer ==
    /\ err = ""
    /\ \/ op.name \in {"ctor", "stitch"}
       \/ op.name = "sky_subtract" /\ ~op.force

Targets ==
    (IF RetIsContainer THEN {<<"ret", 0>>} ELSE {})
        \cup (IF coll = None THEN {} ELSE {<<"coll", i>> : i \in 1..Len(coll[1])})

Receiver(t) == IF t[1] = "ret" THEN ret[1] ELSE coll[1][t[2]]

\* handles opened by fits.open are never closed by the code: each is released
\* when the interpreter finalizes the unreferenced HDUList, at the return of
\* the call under reference counting or at some later collection
Opened(n) ==
    /\ handles + n <= MaxHandles
    /\ \E released \in {0, n} : handles' = handles + n - released

Construct(file) ==
    \E r \in {KeckNIRSPECSpectrum(Disk[drawn], file)} :
        /\ Opened(r.opened)
        /\ ret' = r.obj
        /\ err' = r.err
        /\ retSelf' = FALSE
        /\ op' = [name |-> "ctor", file |-> file]
        /\ ctorLog' = <<file>>
        /\ UNCHANGED <<drawn, inputs, coll>>

Read ==
    \E r \in {read(Disk[drawn], inputs)} :
        /\ Opened(r.opened)
        /\ ret' = r.value
        /\ err' = r.err
        /\ retSelf' = FALSE
        /\ coll' = IF r.err = "" THEN r.value ELSE coll
        /\ op' = [name |-> "read", before |-> coll]
        /\ ctorLog' = r.log
        /\ UNCHANGED <<drawn, inputs>>

Normalize ==
    /\ coll # None
    /\ \E r \in {normalize(coll[1])} :
        /\ ret' = r.value
        /\ err' = r.err
        /\ retSelf' = r.self
        /\ coll' = IF r.err = "" THEN r.value ELSE coll
    /\ op' = [name |-> "normalize", before |-> coll[1]]
    /\ ctorLog' = <<>>
    /\ UNCHANGED <<drawn, inputs, handles>>

Stitch ==
    /\ coll # None
    /\ \E r \in {stitch(coll[1])} :
        /\ ret' = r.value
        /\ err' = r.err
        /\ retSelf' = r.self
    /\ op' = [name |-> "stitch", before |-> coll[1]]
    /\ ctorLog' = <<>>
    /\ UNCHANGED <<drawn, inputs, handles, coll>>

SkySubtract(t, force) ==
    /\ \E r \in {sky_subtract(Receiver(t), force)} :
        /\ ret' = r.value
        /\ err' = r.err
        /\ retSelf' = r.self
    /\ op' = [name |-> "sky_subtract", force |-> force, target |-> t, recv |-> Receiver(t)]
    /\ ctorLog' = <<>>
    /\ UNCHANGED <<drawn, inputs, handles, coll>>

Access(t, prop) ==
    /\ \E r \in {Property(Receiver(t), prop)} :
        /\ ret' = r.value
        /\ err' = r.err
        /\ retSelf' = r.self
    /\ op' = [name |-> "access", prop |-> prop, recv |-> Receiver(t)]
    /\ ctorLog' = <<>>
    /\ UNCHANGED <<drawn, inputs, handles, coll>>

\* the interpreter finalizes the unreferenced HDULists
Finalize ==
    /\ handles > 0
    /\ handles' = 0
    /\ UNCHANGED <<drawn, inputs, coll, ret, retSelf, err, op, ctorLog>>

Start(rows, paths) ==
    /\ drawn = rows
    /\ inputs = paths
    /\ handles = 0
    /\ coll = None
    /\ ret = None
    /\ retSelf = FALSE
    /\ err = ""
    /\ op = [name |-> "none"]
    /\ ctorLog = <<>>

Init == \E paths \in FileLists : Start(sampleRows, paths)

Next ==
    \/ \E i \in 1..Len(inputs) : Construct(inputs[i])
    \/ Read
    \/ Normalize
    \/ Stitch
    \/ \E t \in Targets, force \in BOOLEAN : SkySubtract(t, force)
    \/ \E t \in Targets, prop \in Properties : Access(t, prop)
    \/ Finalize

Spec == Init /\ [][Next]_vars

(***************************************************************************)
(* Loading alone, on every list of paths                                   *)
(***************************************************************************)
NextLoad ==
    \/ \E i \in 1..Len(inputs) : Construct(inputs[i])
    \/ Read
    \/ Finalize

SpecLoad == Init /\ [][NextLoad]_vars

(***************************************************************************)
(* Loading and the collection methods on flux tables drawn from the        *)
(* bounded set of rows                                                     *)
(***************************************************************************)
DataLists == {<<pGood, pNoHdr>>, <<pNoHdr, pGood>>}

InitData == \E rows \in RowSeqs, paths \in DataLists : Start(rows, paths)

NextData ==
    \/ \E i \in 1..Len(inputs) : Construct(inputs[i])
    \/ Read
    \/ Normalize
    \/ Stitch
    \/ Finalize

SpecData == InitData /\ [][NextData]_vars

(***************************************************************************)
(* Every call on the containers of a few lists                             *)
(***************************************************************************)
MethodLists == {<<>>, <<pTwoFlux>>, <<pGood, pNoHdr>>, <<pNoHdr, pNoHdr>>}

InitMethods == \E paths \in MethodLists : Start(sampleRows, paths)

SpecMethods == InitMethods /\ [][Next]_vars

(***************************************************************************)
(* Properties                                                              *)
(***************************************************************************)
sFluxTbl == SubSeq(sFluxTblFits, 1, 9)                                 \* "_flux_tbl"

\* the two characters of the base name right before its last "_flux_tbl"
OrderChars(file) ==
    LET b == SplitLast(file, sSlash)
        k == RFind(b, sFluxTbl)
    IN  IF k < 2 THEN <<>> ELSE SubSeq(b, k - 1, k)

\* a valid flux-table path: an existing file whose base name starts with
\* "NS.", contains "_flux_tbl.fits" and has two digits before "_flux_tbl"
ValidPath(file) ==
    /\ file \in TableFiles
    /\ StartsWith(SplitLast(file, sSlash), sNS)
    /\ In(sFluxTblFits, SplitLast(file, sSlash))
    /\ Len(OrderChars(file)) = 2
    /\ AllDigits(OrderChars(file))

RECURSIVE ExpectedTable(_)
ExpectedTable(S) ==
    IF S = {} THEN <<>>
    ELSE LET p == CHOOSE q \in S : TRUE
         IN  (p :> [valid |-> ValidPath(p), order |-> int(OrderChars(p)).val])
                @@ ExpectedTable(S \ {p})

\* for every path, whether it is valid and the order number its name states
Expected == ExpectedTable(Paths)

\* C1: read() on a list of K valid flux-table paths returns a collection of
\* exactly K elements, element i being the container built from files[i].
C1_ReadReturnsEveryValidPath ==
    (op.name = "read" /\ \A i \in 1..Len(inputs) : Expected[inputs[i]].valid)
        => /\ err = ""
           /\ ret # None
           /\ Len(ret[1]) = Len(inputs)
           /\ \A i \in 1..Len(inputs) :
                Some(ret[1][i]) = KeckNIRSPECSpectrum(Disk[drawn], inputs[i]).obj

\* a path read() cannot turn into a container
BadPath(file) == ~OfPath[file].dotted \/ KeckNIRSPECSpectrum(Disk[drawn], file).err # ""
HasBadPath == \E i \in 1..Len(inputs) : BadPath(inputs[i])
FirstBad == CHOOSE i \in 1..Len(inputs) : BadPath(inputs[i]) /\ \A j \in 1..(i - 1) : ~BadPath(inputs[j])

\* C2: read() raises at the first bad path, hands no later path to the
\* constructor and returns no collection, the caller's collection being the
\* one it held before.
C2_ReadAbortsOnFirstBadPath ==
    (op.name = "read" /\ HasBadPath)
        => /\ err # ""
           /\ ret = None
           /\ coll = op.before
           /\ Len(ctorLog) \in {FirstBad - 1, FirstBad}
           /\ ctorLog = SubSeq(inputs, 1, Len(ctorLog))

C2_Witness ==
    /\ op.name = "read"
    /\ err # ""
    /\ Len(inputs) = 2
    /\ BadPath(inputs[1])
    /\ ~BadPath(inputs[2])
    /\ Len(ctorLog) = 1

\* C3: the stored order number meta["m"] is the integer formed by the two
\* characters of the base name right before "_flux_tbl".
C3_OrderPrecedesFluxTbl ==
    (op.name = "ctor" /\ err = "") => ret[1].meta["m"] = Expected[op.file].order

\* the containers built from files by the last call, each with its path
FileBuilt ==
    IF err # "" THEN {}
    ELSE IF op.name = "ctor" THEN {<<ret[1], op.file>>}
    ELSE IF op.name = "read" THEN {<<ret[1][i], inputs[i]>> : i \in 1..Len(inputs)}
    ELSE {}

\* C4: the mask of a file-constructed container is true at row i exactly
\* when flux[i] is NaN, noise[i] is NaN or noise[i] <= 0, and the nested sky
\* container carries the same mask.
C4_MaskMarksBadRows ==
    \A b \in FileBuilt :
        LET c == b[1]
            data == Disk[drawn].tables[b[2]]
        IN  /\ c.mask # None
            /\ Len(c.mask[1]) = Len(data)
            /\ \A i \in 1..Len(data) :
                    c.mask[1][i] <=>
                        \/ data[i].flux = <<0, 0>>
                        \/ data[i].noise = <<0, 0>>
                        \/ data[i].noise[1] <= 0
            /\ c.meta["sky"].mask = c.mask

C4_Witness ==
    \E b \in FileBuilt :
        \E i, j \in 1..Len(b[1].flux) :
            /\ b[1].mask[1][i]
            /\ ~b[1].mask[1][j]
            /\ Disk[drawn].tables[b[2]][i].noise = <<0, 1>>

IsFiniteNonzero(x) == x[2] # 0 /\ x[1] # 0

HeaderProperties == {"RA", "DEC", "astropy_time"}
HeaderKey(prop) == IF prop = "astropy_time" THEN "MJD-OBS" ELSE prop

\* C6 as stated: RA, DEC and astropy_time fail with a key-lookup error on a
\* container that has no header, and so does every derived property whose
\* backing metadata is absent.
C6_NoHeaderIsKeyError ==
    op.name = "access" =>
        /\ (op.prop \in HeaderProperties
                /\ ("header" \notin DOMAIN op.recv.meta \/ op.recv.meta["header"] = <<>>))
            => err = "KeyError"
        /\ (op.prop \notin HeaderProperties /\ op.prop \notin DOMAIN op.recv.meta)
            => err = "KeyError"

\* C6 amended: RA, DEC and astropy_time fail with a key-lookup error when
\* the metadata has no "header" entry or the header lacks the field, and
\* with a type error when the header entry is None, as it is on a
\* file-constructed container without companion file; pipeline, sky and flat
\* fail with a key-lookup error when their metadata entry is absent.
C6_NoHeaderFails ==
    op.name = "access" =>
        /\ (op.prop \in HeaderProperties /\ "header" \notin DOMAIN op.recv.meta)
            => err = "KeyError"
        /\ (op.prop \in HeaderProperties /\ "header" \in DOMAIN op.recv.meta
                /\ op.recv.meta["header"] = <<>>)
            => err = "TypeError"
        /\ (op.prop \in HeaderProperties /\ "header" \in DOMAIN op.recv.meta
                /\ op.recv.meta["header"] # <<>>
                /\ HeaderKey(op.prop) \notin DOMAIN op.recv.meta["header"][1])
            => err = "KeyError"
        /\ (op.prop \notin HeaderProperties /\ op.prop \notin DOMAIN op.recv.meta)
            => err = "KeyError"

C6_Witness ==
    /\ op.name = "access"
    /\ op.prop = "RA"
    /\ "m" \in DOMAIN op.recv.meta
    /\ op.recv.meta["header"] = <<>>
    /\ err = "TypeError"

\* C7: sky_subtract() without force returns its receiver: flux, mask and
\* uncertainty are those of the input, the receiver is unchanged, and a
\* further unforced call on the result gives the same result again.
C7_UnforcedSkySubtractIsNoOp ==
    (op.name = "sky_subtract" /\ ~op.force)
        => /\ err = ""
           /\ retSelf
           /\ ret # None
           /\ ret[1].flux = op.recv.flux
           /\ ret[1].mask = op.recv.mask
           /\ ret[1].uncertainty = op.recv.uncertainty
           /\ ret[1] = op.recv
           /\ op.target[1] = "coll" => coll[1][op.target[2]] = op.recv
           /\ <<"ret", 0>> \in Targets

\* an unforced call on the result of an earlier call, on a container whose
\* sky a forced call would have subtracted
C7_Witness ==
    /\ op.name = "sky_subtract"
    /\ ~op.force
    /\ op.target[1] = "ret"
    /\ "sky" \in DOMAIN op.recv.meta
    /\ Len(op.recv.flux) > 0

RECURSIVE Offset(_, _)
\* the number of samples in the first k elements of a collection
Offset(list, k) == IF k = 0 THEN 0 ELSE Offset(list, k - 1) + Len(list[k].flux)

\* C8: stitch() returns one container whose wavelengths and fluxes are
\* those of the elements laid end to end in collection order, and leaves
\* the collection unchanged.
C8_StitchConcatenates ==
    (op.name = "stitch" /\ Len(op.before) > 0)
        => /\ err = ""
           /\ ret # None
           /\ ~retSelf
           /\ Len(ret[1].spectral_axis) = Offset(op.before, Len(op.before))
           /\ Len(ret[1].flux) = Offset(op.before, Len(op.before))
           /\ \A i \in 1..Len(op.before) :
                \A j \in 1..Len(op.before[i].flux) :
                    /\ ret[1].spectral_axis[Offset(op.before, i - 1) + j]
                            = op.before[i].spectral_axis[j]
                    /\ ret[1].flux[Offset(op.before, i - 1) + j] = op.before[i].flux[j]
           /\ coll = Some(op.before)

C8_Witness ==
    /\ op.name = "stitch"
    /\ err = ""
    /\ Len(op.before) = 2
    /\ Len(op.before[1].flux) > 0
    /\ Len(op.before[2].flux) > 0
    /\ op.before[1].spectral_axis[1] # op.before[2].spectral_axis[1]

C10_HandlesReleased == op.name \in {"ctor", "read"} => handles = 0

====
